---------------------------- MODULE Spec2Model ----------------------------
(***************************************************************************)
(* Synchronization engine of onenote-rag: the SyncOrchestrator             *)
(* (backend/services/sync_orchestrator.py) working against the document    *)
(* cache (backend/services/document_cache.py, document_cache_db.py) and    *)
(* the Graph API adapter (backend/services/onenote_service.py).            *)
(*                                                                         *)
(* One sync coroutine runs at a time; pc is its position.  The control     *)
(* methods pause_sync / resume_sync / cancel_sync are called by other      *)
(* request handlers and may run between any two steps of the coroutine.    *)
(* Every remote call and every cache write is one step.  A call that can   *)
(* fail draws its outcome from a small set.                                *)
(***************************************************************************)
EXTENDS Integers, Sequences, FiniteSets, TLC

\* ------------------------------------------------------------------------
\* Bounds
\* ------------------------------------------------------------------------

\* number of sync runs started in one behaviour (job ids are 1..MaxJobs)
MaxJobs == 1

\* ------------------------------------------------------------------------
\* The remote hierarchy (notebooks -> sections -> pages) and the inputs
\* ------------------------------------------------------------------------

Notebooks == <<"n1", "n2">>

SectionsOf(nb) == IF nb = "n1" THEN <<"s1">> ELSE <<"s2">>

PagesOf(sec) == IF sec = "s1" THEN <<"p1", "p2">> ELSE <<"p3">>

RemotePages == {"p1", "p2", "p3"}

\* lastModifiedDateTime of a page as the remote sends it: a string with a
\* zone designator ("aware"), one without ("naive"), or no usable value
Formats == {"naive", "aware", "none"}

\* What the remote reports for each page: the format and value of its
\* lastModifiedDateTime and the number of <img> tags in its content
RemoteWorlds ==
    { [p \in RemotePages |->
         [fmt |-> IF p = "p3" THEN f ELSE "naive", modified |-> 1,
          images |-> IF p = "p2" THEN 1 ELSE 0]] : f \in Formats }

\* Optional values: None is the empty set, Some(x) a singleton
None == {}
Some(x) == {x}
The(s) == CHOOSE x \in s : TRUE

\* A cached row of onenote_documents: modified_date (its value and whether it
\* carries a zone), is_deleted, sync_version, image_count, last_synced_at and
\* indexed_at; the text columns are written but never read by the
\* orchestrator and are left out.  A row as a sync at time 0 wrote it.
Row(t, aware, deleted, version, nimg) ==
    [modified |-> t, aware |-> aware, is_deleted |-> deleted,
     sync_version |-> version, image_count |-> nimg,
     last_synced_at |-> 0, indexed_at |-> None]

\* The databases a new process can find on disk: a fresh one, one left by a
\* full sync and one left by an incremental sync
State(full, incr, status) ==
    [last_full_sync_at |-> full, last_incremental_sync_at |-> incr,
     sync_status |-> status, last_sync_error |-> None]

\* the rows of such a database: p1, and p4, a page that no longer exists
\* remotely
OldRows(t) ==
    [p \in {"p1", "p4"} |-> Row(t, FALSE, FALSE, 1, 0)]

InitDatabases ==
    { [state |-> None, docs |-> <<>>],
      [state |-> Some(State(Some(0), None, "completed")), docs |-> OldRows(0)],
      [state |-> Some(State(None, Some(0), "completed")), docs |-> OldRows(1)] }

\* The clock counts half days, so that a time span has a whole number of
\* days and a remainder, as a timedelta has.
TicksPerDay == 2

\* sync_smart, line 559: the staleness window in days
StaleDays == 7

\* Ages of the last full sync, in ticks, at the time sync_smart is called:
\* fresh, exactly the window, the window and half a day, a day beyond it.
SmartAges ==
    {0, StaleDays * TicksPerDay, StaleDays * TicksPerDay + 1,
     (StaleDays + 1) * TicksPerDay}

\* The databases sync_smart can find: a fresh one, one left by a full run
\* that ended SmartAges ago, one whose last run failed (_update_sync_state_
\* status keeps the timestamps), one left by an incremental run.  No run
\* leaves both timestamps: each finalization writes its own and clears the
\* other.
SmartDatabases ==
    { [state |-> None, docs |-> <<>>] }
    \cup { [state |-> Some(State(Some(1 - a), None, "completed")),
            docs |-> OldRows(0)] : a \in SmartAges }
    \cup { [state |-> Some([State(Some(1), None, "error")
                               EXCEPT !.last_sync_error = Some("error")]),
             docs |-> OldRows(0)],
            [state |-> Some(State(None, Some(0), "completed")),
             docs |-> OldRows(1)] }

VARIABLES
    clock,             \* datetime.now()
    remote,            \* page id -> metadata the Graph API reports
    docs,              \* table onenote_documents: page id -> row
    images,            \* table onenote_images: set of <<page id, image_index>>
    sync_state,        \* table sync_state, the ('global','global') row
    sync_jobs,         \* table sync_jobs: job id -> row
    sync_history,      \* table sync_history, oldest first
    active_jobs,       \* SyncOrchestrator.active_jobs
    pause_requested,   \* SyncOrchestrator._pause_requested
    cancel_requested,  \* SyncOrchestrator._cancel_requested
    pc,                \* position of the sync coroutine
    run,               \* locals of sync_full / sync_incremental
    pg,                \* locals of _sync_page
    obs,               \* history of the current run, for the properties
    now,               \* time.time(), in ticks
    limiter,           \* the AdaptiveRateLimiter of the OneNoteService
    called,            \* history of the limiter's calls, for the properties
    req,               \* the get_page_content call in progress
    api                \* the sync endpoints: ids drawn, returned and stored

vars == <<clock, remote, docs, images, sync_state, sync_jobs, sync_history,
          active_jobs, pause_requested, cancel_requested, pc, run, pg, obs,
          now, limiter, called, req, api>>

db == <<docs, images, sync_state, sync_jobs, sync_history>>
flags == <<pause_requested, cancel_requested>>

\* what no step of a sync run changes: the remote notebooks, and the rate
\* limiter, whose waits the sync runs below do not time (each remote call
\* simply draws its outcome)
world == <<remote, now, limiter, called, req, api>>

\* what no call of the rate limiter changes
sync == <<clock, remote, docs, images, sync_state, sync_jobs, sync_history,
          active_jobs, pause_requested, cancel_requested, pc, run, pg, obs>>

\* no get_page_content call in progress
NoRequest == [attempt |-> 0, responses |-> <<>>, result |-> "idle"]

\* no endpoint called yet: no uuid drawn, no job id returned, no task
\* scheduled, no job stored
NoApi == [drawn |-> {}, returned |-> <<>>, tasks |-> 0, jobs |-> <<>>,
          response |-> None]

\* ------------------------------------------------------------------------
\* The rate limiter's units and construction
\* ------------------------------------------------------------------------

\* Ticks in the 60 seconds of a minute (rate_limiter.py lines 69, 106, 127):
\* time.time() is counted in ticks of 60 / Minute seconds.
Minute == 6

\* requests_per_minute is kept in units of 1 / RpmScale requests per minute,
\* rounded down; the float of the code is not rounded at this scale in the
\* runs below.
RpmScale == 100

\* One token, in the unit of tokens: elapsed ticks times the scaled rate
\* (tokens_to_add, line 69) is then a whole number.
Token == Minute * RpmScale

\* time.time() when the limiter is built (line 49): later than any
\* min_interval after last_request = 0 (line 50)
StartTime == 2

MaxTime == 8

\* the record_success / record_error calls of one behaviour
MaxRecords == 2

\* constants of AdaptiveRateLimiter
SpeedUpAfter == 50
ErrorsBeforeSlowdown == 5
RateLimitFloor == 30
ErrorFloor == 50

\* Constructor arguments: requests_per_minute, burst_size, and min_interval
\* in ticks.  The second has the rate and burst OneNoteService passes
\* (onenote_service.py lines 63-67).
Configs ==
    { [requests_per_minute |-> 3, burst_size |-> 2, min_interval |-> 1],
      [requests_per_minute |-> 100, burst_size |-> 10, min_interval |-> 1] }

ProductionConfig == CHOOSE cfg \in Configs : cfg.requests_per_minute = 100

\* RateLimiter.__init__ and AdaptiveRateLimiter.__init__; the statistics
\* total_requests, total_waits and total_wait_time only count and are left
\* out.
RateLimiter(cfg) ==
    [requests_per_minute |-> cfg.requests_per_minute * RpmScale,
     burst_size |-> cfg.burst_size,
     min_interval |-> cfg.min_interval,
     tokens |-> cfg.burst_size * Token,
     max_tokens |-> cfg.burst_size * Token,
     last_refill |-> StartTime,
     last_request |-> 0,
     consecutive_successes |-> 0,
     consecutive_errors |-> 0,
     original_rpm |-> cfg.requests_per_minute * RpmScale]

\* History of the limiter's calls:
\*   granted   the times at which acquire returned True, oldest first
\*   max_rpm   the highest requests_per_minute the limiter has had
\*   last_op   the last call made
\*   pre_rpm   requests_per_minute before the last handle_rate_limit_error
\*   error     the last handle_rate_limit_error: when it was called, the
\*             Retry-After it was given, and Len(granted) at that time
\*   records   the number of record_success / record_error calls
\*   outcomes  what a caller reported after each of its requests, oldest
\*             first: "success", "rate_limit" or "error"
NoCalls(l) ==
    [granted |-> <<>>,
     max_rpm |-> IF l.requests_per_minute >= l.original_rpm
                 THEN l.requests_per_minute ELSE l.original_rpm,
     last_op |-> "none",
     pre_rpm |-> 0, error |-> None, records |-> 0, outcomes |-> <<>>]


\* ------------------------------------------------------------------------
\* Records
\* ------------------------------------------------------------------------

\* models.document_cache.SyncJob as persisted in sync_jobs
SyncJob(type, ids) ==
    [sync_type |-> type, notebook_ids |-> ids, status |-> "running", total_pages |-> 0,
     pages_processed |-> 0, pages_added |-> 0, pages_updated |-> 0,
     pages_deleted |-> 0, api_calls_made |-> 0, error_count |-> 0,
     last_error |-> None, estimated_remaining_seconds |-> None]

\* models.document_cache.SyncHistory as persisted in sync_history
SyncHistory(r, type, status, deleted) ==
    [job_id |-> r.job_id, sync_type |-> type, status |-> status,
     pages_fetched |-> r.pages_fetched, pages_added |-> r.pages_added,
     pages_updated |-> r.pages_updated, pages_deleted |-> deleted,
     pages_skipped |-> r.pages_skipped, api_calls_made |-> r.api_calls,
     errors_encountered |-> r.errors, error_details |-> r.error_details]

\* the locals of a sync coroutine
NoRun ==
    [job_id |-> 0, sync_type |-> "none", notebook_ids |-> {},
     notebooks |-> <<>>, nbIdx |-> 0, sections |-> <<>>, secIdx |-> 0,
     pages |-> <<>>, pgIdx |-> 0,
     pages_fetched |-> 0, pages_added |-> 0, pages_updated |-> 0,
     pages_skipped |-> 0, api_calls |-> 0, errors |-> 0,
     error_details |-> <<>>,
     last_sync |-> None, all_pages |-> <<>>, cached_page_ids |-> {},
     deleted_page_ids |-> {}]

\* the locals of _sync_page
NoPage ==
    [id |-> "", fmt |-> "none", modified |-> 0, is_new |-> FALSE,
     counted_new |-> FALSE, found |-> 0, downloaded |-> <<>>,
     dl |-> 0, st |-> 0]

\* What happened in the current run (history only, never read by an action):
\*   requested      the method the caller started, prev_incremental whether
\*                  the run before was an incremental request that completed
\*                  without any failure
\*   attempted      pages _sync_page was called for
\*   committed      pages whose document row was written
\*   failed         pages whose _sync_page raised
\*   stop           the flags that made _should_stop return True
\*   cancel_mid     cancel_sync was called while a page was in progress
\*   pause_mid      pause_sync was called while a page was in progress
\*   list_failed    the listing calls that failed
\*   after_fail     pages attempted after a notebook or section listing failed
\*   live_at_start  the live rows when the run started
\*   docs_at_start  onenote_documents when the run started
\*   fetched        pages get_page_content was called for
\*   added, updated pages the run counted in pages_added / pages_updated
\*   skipped, queued  pages the comparison of sync_incremental counted in
\*                  pages_skipped / put in changed_pages
\*   listed         the page ids of the metadata pass
NoObs ==
    [job |-> 0, requested |-> "none", prev_incremental |-> FALSE,
     attempted |-> {}, committed |-> {}, failed |-> {},
     stop |-> "none", cancel_mid |-> FALSE, pause_mid |-> FALSE,
     list_failed |-> {}, after_fail |-> {}, live_at_start |-> {},
     listed |-> {}, docs_at_start |-> <<>>, fetched |-> {}, added |-> {},
     updated |-> {}, skipped |-> {}, queued |-> {}]

\* the positions of the coroutine inside _sync_page
PageStages == {"page_fetch", "page_download", "page_cache", "page_store"}

\* the positions of the coroutine in the page loops
PagePcs == PageStages \cup {"full_page_loop", "inc_page_loop"}

FinalizePcs == {"full_finalize", "inc_finalize"}

Terminal == {"completed", "failed", "cancelled"}

\* the metadata record of a page in a listing
PageMeta(p) == [id |-> p, fmt |-> remote[p].fmt, modified |-> remote[p].modified]

Metas(ps) == [i \in 1..Len(ps) |-> PageMeta(ps[i])]

\* ------------------------------------------------------------------------
\* Cache reads and writes
\* ------------------------------------------------------------------------

\* DocumentCacheDB.get_document: the row of a page unless tombstoned
get_document(d, p) ==
    IF p \in DOMAIN d /\ ~d[p].is_deleted THEN Some(d[p]) ELSE None

\* DocumentCacheDB.get_all_page_ids(include_deleted=False)
get_all_page_ids(d) == {p \in DOMAIN d : ~d[p].is_deleted}

\* DocumentCacheDB.get_all_documents(include_deleted=False)
get_all_documents(d) == {p \in DOMAIN d : ~d[p].is_deleted}

\* DocumentCacheDB.get_images_for_page
get_images_for_page(im, p) == {x[2] : x \in {y \in im : y[1] = p}}

\* an upsert whose DO UPDATE takes sync_version from the inserted values
\* (sync_version = excluded.sync_version, always 1) as it does the others
upsert_document_excluded(d, p, t, aware, nimg) ==
    [q \in DOMAIN d \cup {p} |->
        IF q # p THEN d[q]
        ELSE [Row(t, aware, FALSE, 1, nimg) EXCEPT !.last_synced_at = clock]]

\* DocumentCacheDB.upsert_document: INSERT ... ON CONFLICT(page_id) DO UPDATE
\* of the CachedDocument _rag_to_cached_document built (last_synced_at now,
\* indexed_at None)
upsert_document(d, p, t, aware, nimg) ==
    [q \in DOMAIN d \cup {p} |->
        IF q # p THEN d[q]
        ELSE [Row(t, aware, FALSE,
                  IF p \in DOMAIN d THEN d[p].sync_version + 1 ELSE 1, nimg)
                EXCEPT !.last_synced_at = clock]]

\* a query without the test for NULL: NULL < last_synced_at is not true
get_documents_needing_indexing_stale(d) ==
    {p \in DOMAIN d :
        /\ ~d[p].is_deleted
        /\ d[p].indexed_at # None
        /\ The(d[p].indexed_at) < d[p].last_synced_at}

\* DocumentCacheDB.get_documents_needing_indexing
get_documents_needing_indexing(d) ==
    {p \in DOMAIN d :
        /\ ~d[p].is_deleted
        /\ \/ d[p].indexed_at = None
           \/ The(d[p].indexed_at) < d[p].last_synced_at}

\* DocumentCacheDB.mark_document_indexed at time t; the callers pass the
\* image_count of the document itself
mark_document_indexed(d, p, t) ==
    [d EXCEPT ![p].indexed_at = Some(t)]

\* DocumentCacheDB.mark_document_deleted for every id of a set
mark_documents_deleted(d, ids) ==
    [q \in DOMAIN d |-> IF q \in ids THEN [d[q] EXCEPT !.is_deleted = TRUE] ELSE d[q]]

\* DocumentCacheService.get_last_sync_timestamp
get_last_sync_timestamp(st) ==
    IF st # None THEN The(st).last_incremental_sync_at ELSE None

\* SyncOrchestrator._update_sync_state_status
update_sync_state_status(st, status, error) ==
    IF st = None THEN st
    ELSE Some([The(st) EXCEPT !.sync_status = status,
                              !.last_sync_error = IF error # None THEN error ELSE @])

\* SyncOrchestrator._should_stop
should_stop == pause_requested \/ cancel_requested

\* which flag a stop was due to
StopKind ==
    IF cancel_requested /\ pause_requested THEN "both"
    ELSE IF cancel_requested THEN "cancel" ELSE "pause"

\* SyncOrchestrator._update_job_progress
update_job_progress(jobs, j, processed, calls) ==
    [jobs EXCEPT ![j].pages_processed = processed, ![j].api_calls_made = calls]

\* ------------------------------------------------------------------------
\* Initial states
\* ------------------------------------------------------------------------

InitWith(databases, image_rows) ==
    /\ clock = 1
    /\ remote \in RemoteWorlds
    /\ \E d \in databases : sync_state = d.state /\ docs = d.docs
    /\ images = image_rows
    /\ sync_jobs = <<>>
    /\ sync_history = <<>>
    /\ active_jobs = {}
    /\ pause_requested = FALSE
    /\ cancel_requested = FALSE
    /\ pc = "idle"
    /\ run = NoRun
    /\ pg = NoPage
    /\ obs = NoObs
    /\ now = StartTime
    /\ limiter = RateLimiter(ProductionConfig)
    /\ called = NoCalls(limiter)
    /\ req = NoRequest
    /\ api = NoApi

InitFrom(databases) == InitWith(databases, {})

Init == InitFrom(InitDatabases)

\* ------------------------------------------------------------------------
\* Control methods
\* ------------------------------------------------------------------------

\* SyncOrchestrator.pause_sync
PauseSync ==
    /\ ~pause_requested
    /\ pause_requested' = TRUE
    /\ obs' = [obs EXCEPT !.pause_mid = @ \/ pc \in PageStages]
    /\ UNCHANGED <<clock, world, db, active_jobs, cancel_requested, pc, run, pg>>

\* SyncOrchestrator.resume_sync
ResumeSync ==
    /\ pause_requested
    /\ pause_requested' = FALSE
    /\ UNCHANGED <<clock, world, db, active_jobs, cancel_requested, pc, run, pg, obs>>

\* SyncOrchestrator.cancel_sync
CancelSync ==
    /\ ~cancel_requested
    /\ cancel_requested' = TRUE
    /\ obs' = [obs EXCEPT !.cancel_mid = @ \/ pc \in PageStages]
    /\ UNCHANGED <<clock, world, db, active_jobs, pause_requested, pc, run, pg>>


\* ------------------------------------------------------------------------
\* Outcomes of the calls that can fail
\* ------------------------------------------------------------------------

\* list_notebooks / list_sections / list_pages: the listing; an empty list
\* (the request failed and the adapter returned []); an exception that is
\* not a requests.RequestException, which the adapter lets through
ListOutcomes == {"ok", "empty", "raise"}

\* get_page_content: the HTML, or None after the retries
ContentOutcomes == {"html", "none"}

\* _download_image: the bytes, or None
DownloadOutcomes == {"bytes", "none"}

\* a cache read or write, an upload: it returns or it raises.  The cache
\* service converts between Document and CachedDocument on every read and
\* write (_cached_to_rag_document, _rag_to_cached_document) and a conversion
\* raises when the model validation rejects it; both outcomes are kept, the
\* SQL statements themselves are taken to succeed
CallOutcomes == {"ok", "raise"}

\* ------------------------------------------------------------------------
\* Ends of a run
\* ------------------------------------------------------------------------

\* an except block without the finally block: the job stays in active_jobs
FailJob_keeps_active ==
    /\ sync_jobs' = [sync_jobs EXCEPT ![run.job_id].status = "failed",
                                      ![run.job_id].last_error = Some("error"),
                                      ![run.job_id].error_count = @ + 1]
    /\ sync_state' = update_sync_state_status(sync_state, "error", Some("error"))
    /\ active_jobs' = active_jobs
    /\ pc' = "idle"
    /\ run' = NoRun
    /\ pg' = NoPage
    /\ UNCHANGED <<clock, world, docs, images, sync_history, flags>>

\* the except and finally blocks of sync_full / sync_incremental
\* (sync_orchestrator.py 279-296 and 507-524)
FailJob ==
    /\ sync_jobs' = [sync_jobs EXCEPT ![run.job_id].status = "failed",
                                      ![run.job_id].last_error = Some("error"),
                                      ![run.job_id].error_count = @ + 1]
    /\ sync_state' = update_sync_state_status(sync_state, "error", Some("error"))
    /\ active_jobs' = active_jobs \ {run.job_id}
    /\ pc' = "idle"
    /\ run' = NoRun
    /\ pg' = NoPage
    /\ UNCHANGED <<clock, world, docs, images, sync_history, flags>>

\* where the page loop of the running sync continues
PageLoop == IF run.sync_type = "full" THEN "full_page_loop" ELSE "inc_page_loop"

\* a page loop whose except block gives the whole sync up
PageFailed_aborts(p, o) ==
    /\ run' = [run EXCEPT !.errors = @ + 1,
                          !.error_details = Append(@, <<"Page", p>>)]
    /\ pg' = NoPage
    /\ pc' = IF run.sync_type = "full" THEN "full_finalize" ELSE "inc_finalize"
    /\ obs' = [o EXCEPT !.failed = @ \cup {p}]
    /\ UNCHANGED sync_jobs

\* the except block around _sync_page in both page loops; o is the history
\* record to continue from
PageFailed(p, o) ==
    /\ run' = [run EXCEPT !.errors = @ + 1,
                          !.error_details = Append(@, <<"Page", p>>),
                          !.pgIdx = @ + 1]
    /\ pg' = NoPage
    /\ pc' = PageLoop
    /\ obs' = [o EXCEPT !.failed = @ \cup {p}]
    /\ UNCHANGED sync_jobs

\* the history record o with page p counted as added or as updated
Counted(o, p, is_new) ==
    [o EXCEPT !.added = IF is_new THEN @ \cup {p} ELSE @,
              !.updated = IF is_new THEN @ ELSE @ \cup {p}]

\* the statements after _sync_page returned, in both page loops; is_new is
\* result['is_new'] in sync_full and the loop's own is_new in sync_incremental
PageSucceeded(is_new, calls, o) ==
    /\ run' = [run EXCEPT !.pages_fetched = @ + 1,
                          !.api_calls = @ + calls,
                          !.pages_added = IF is_new THEN @ + 1 ELSE @,
                          !.pages_updated = IF is_new THEN @ ELSE @ + 1,
                          !.pgIdx = @ + 1]
    /\ sync_jobs' = update_job_progress(sync_jobs, run.job_id,
                                        run.pages_fetched + 1, run.api_calls + calls)
    /\ pg' = NoPage
    /\ pc' = PageLoop
    /\ obs' = o

\* ------------------------------------------------------------------------
\* _sync_page
\* ------------------------------------------------------------------------

\* datetime comparison a >= b; comparing a zone-aware with a naive value
\* raises TypeError
CompareGE(ta, awa, tb, awb) ==
    IF awa # awb THEN "TypeError" ELSE IF ta >= tb THEN "true" ELSE "false"

\* the up-to-date check of _sync_page (lines 635-637)
UpToDate(existing, m) ==
    IF existing = None \/ m.fmt = "none" THEN "false"
    ELSE CompareGE(The(existing).modified, The(existing).aware,
                   m.modified, m.fmt = "aware")

\* _sync_page up to the call of get_page_content (lines 626-645): the cache
\* lookup and the up-to-date check.  m is the page metadata, caller_new the
\* is_new of the sync_incremental loop.  get_document converts the row to a
\* Document and that conversion can raise.
SyncPageLookup(m, caller_new) ==
    LET existing == get_document(docs, m.id)
        o == [obs EXCEPT !.attempted = @ \cup {m.id},
                         !.after_fail = IF obs.list_failed \cap {"notebooks", "sections"} # {}
                                        THEN @ \cup {m.id} ELSE @]
        counted == IF run.sync_type = "full" THEN existing = None ELSE caller_new
    IN  /\ UNCHANGED <<docs, images>>
        /\ \E out \in CallOutcomes :
             IF out = "raise"
             THEN existing # None /\ PageFailed(m.id, o)
             ELSE IF UpToDate(existing, m) = "TypeError"
             THEN PageFailed(m.id, o)
             ELSE IF UpToDate(existing, m) = "true"
             THEN PageSucceeded(IF run.sync_type = "full" THEN FALSE ELSE caller_new, 0,
                                Counted(o, m.id,
                                        IF run.sync_type = "full" THEN FALSE ELSE caller_new))
             ELSE /\ pg' = [NoPage EXCEPT !.id = m.id, !.fmt = m.fmt,
                                          !.modified = m.modified,
                                          !.is_new = (existing = None),
                                          !.counted_new = counted]
                  /\ pc' = "page_fetch"
                  /\ obs' = o
                  /\ UNCHANGED <<run, sync_jobs>>

\* _sync_page, lines 647-681: get_page_content, the <img> tags of the
\* content, and the decision to reuse the cached image rows
SyncPageFetch ==
    /\ pc = "page_fetch"
    /\ \E out \in ContentOutcomes :
         LET found == IF out = "html" THEN remote[pg.id].images ELSE 0
             existing_images == get_images_for_page(images, pg.id)
             reuse == ~pg.is_new /\ Cardinality(existing_images) > 0
                      /\ Cardinality(existing_images) = found
         IN  /\ pg' = [pg EXCEPT !.found = found,
                         !.downloaded = IF reuse
                                        THEN [i \in 1..found |-> [src |-> i - 1, cached |-> TRUE]]
                                        ELSE <<>>]
             /\ pc' = IF reuse \/ found = 0 THEN "page_cache" ELSE "page_download"
    /\ obs' = [obs EXCEPT !.fetched = @ \cup {pg.id}]
    /\ UNCHANGED <<clock, world, db, active_jobs, flags, run>>

\* a download loop that polls _should_stop and gives the page up
SyncPageDownload_polls ==
    /\ pc = "page_download"
    /\ IF should_stop
       THEN /\ pc' = IF run.sync_type = "full" THEN "full_finalize" ELSE "inc_finalize"
            /\ pg' = NoPage
            /\ obs' = [obs EXCEPT !.stop = StopKind]
            /\ UNCHANGED <<clock, world, db, active_jobs, flags, run>>
       ELSE /\ \E out \in DownloadOutcomes :
                 pg' = [pg EXCEPT !.dl = @ + 1,
                          !.downloaded = IF out = "bytes"
                                         THEN Append(@, [src |-> pg.dl, cached |-> FALSE])
                                         ELSE @]
            /\ pc' = IF pg.dl + 1 = pg.found THEN "page_cache" ELSE "page_download"
            /\ UNCHANGED <<clock, world, db, active_jobs, flags, run, obs>>

\* _sync_page, lines 683-695: one iteration of the download loop; an image
\* whose download fails is left out of downloaded_images
SyncPageDownload ==
    /\ pc = "page_download"
    /\ \E out \in DownloadOutcomes :
         pg' = [pg EXCEPT !.dl = @ + 1,
                  !.downloaded = IF out = "bytes"
                                 THEN Append(@, [src |-> pg.dl, cached |-> FALSE])
                                 ELSE @]
    /\ pc' = IF pg.dl + 1 = pg.found THEN "page_cache" ELSE "page_download"
    /\ UNCHANGED <<clock, world, db, active_jobs, flags, run, obs>>

\* the positions in downloaded_images that the caching loop writes
ToStore(downloaded) == {i \in 1..Len(downloaded) : ~downloaded[i].cached}

\* DocumentCacheService._rag_to_cached_document: CachedDocument requires a
\* modified_date, so a page without a usable lastModifiedDateTime raises
rag_to_cached_document(fmt) == IF fmt = "none" THEN "raise" ELSE "ok"

\* _sync_page, lines 697-722: build the Document and cache_document; the
\* page returns here when no image is left to store
SyncPageCache ==
    /\ pc = "page_cache"
    /\ \E out \in CallOutcomes :
         IF out = "raise" \/ rag_to_cached_document(pg.fmt) = "raise"
         THEN /\ PageFailed(pg.id, obs)
              /\ UNCHANGED <<docs>>
         ELSE /\ docs' = upsert_document(docs, pg.id, pg.modified, pg.fmt = "aware",
                                         Len(pg.downloaded))
              /\ IF ToStore(pg.downloaded) = {}
                 THEN PageSucceeded(pg.counted_new, 1,
                                    Counted([obs EXCEPT !.committed = @ \cup {pg.id}],
                                            pg.id, pg.counted_new))
                 ELSE /\ pg' = [pg EXCEPT !.st = 1]
                      /\ pc' = "page_store"
                      /\ obs' = [obs EXCEPT !.committed = @ \cup {pg.id}]
                      /\ UNCHANGED <<run, sync_jobs>>
    /\ UNCHANGED <<clock, world, images, sync_state, sync_history, active_jobs, flags>>

\* _sync_page, lines 724-747: one iteration of the image caching loop, the
\* upload and cache_image_metadata at image_index idx; the page returns after
\* the last one
SyncPageStore ==
    /\ pc = "page_store"
    /\ \E out \in CallOutcomes :
         IF out = "raise"
         THEN /\ PageFailed(pg.id, obs)
              /\ UNCHANGED images
         ELSE /\ images' = images \cup {<<pg.id, pg.st - 1>>}
              /\ IF pg.st = Len(pg.downloaded)
                 THEN PageSucceeded(pg.counted_new, 1,
                                    Counted(obs, pg.id, pg.counted_new))
                 ELSE /\ pg' = [pg EXCEPT !.st = @ + 1]
                      /\ UNCHANGED <<pc, run, sync_jobs, obs>>
    /\ UNCHANGED <<clock, world, docs, sync_state, sync_history, active_jobs, flags>>

\* ------------------------------------------------------------------------
\* sync_full
\* ------------------------------------------------------------------------

\* the notebook filters a caller passes (None or a list of ids)
NotebookFilters == {{}, {"n2"}}

FilterNotebooks(nbs, ids) ==
    IF ids = {} THEN nbs ELSE SelectSeq(nbs, LAMBDA nb : nb \in ids)

\* the run before this one was requested as sync_incremental and completed
\* with no failed listing, no failed page and no stop
PrevIncremental ==
    /\ obs.job # 0
    /\ obs.requested = "incremental"
    /\ sync_jobs[obs.job].status = "completed"
    /\ obs.list_failed = {} /\ obs.failed = {} /\ obs.stop = "none"

\* sync_full, lines 85-109: the job row, active_jobs, the sync state
BeginFull(ids, requested) ==
    LET j == Len(sync_jobs) + 1
    IN  /\ clock' = clock + 1
        /\ sync_jobs' = Append(sync_jobs, SyncJob("full", ids))
        /\ active_jobs' = active_jobs \cup {j}
        /\ sync_state' = update_sync_state_status(sync_state, "syncing", None)
        /\ run' = [NoRun EXCEPT !.job_id = j, !.sync_type = "full", !.notebook_ids = ids]
        /\ pg' = NoPage
        /\ pc' = "full_list_notebooks"
        /\ obs' = [NoObs EXCEPT !.job = j, !.requested = requested,
                                !.prev_incremental = PrevIncremental,
                                !.live_at_start = get_all_page_ids(docs),
                                !.docs_at_start = docs]
        /\ UNCHANGED <<world, docs, images, sync_history, flags>>

StartFull ==
    /\ pc = "idle"
    /\ Len(sync_jobs) < MaxJobs
    /\ \E ids \in NotebookFilters : BeginFull(ids, "full")

\* sync_full, lines 111-121: list_notebooks and the filter
FullListNotebooks ==
    /\ pc = "full_list_notebooks"
    /\ \E out \in ListOutcomes :
         IF out = "raise"
         THEN /\ FailJob
              /\ obs' = [obs EXCEPT !.list_failed = @ \cup {"notebooks"}]
         ELSE /\ run' = [run EXCEPT
                    !.notebooks = IF out = "ok"
                                  THEN FilterNotebooks(Notebooks, run.notebook_ids)
                                  ELSE <<>>,
                    !.nbIdx = 1, !.api_calls = @ + 1]
              /\ pc' = "full_notebook_loop"
              /\ obs' = IF out = "empty"
                        THEN [obs EXCEPT !.list_failed = @ \cup {"notebooks"}]
                        ELSE obs
              /\ UNCHANGED <<clock, world, db, active_jobs, flags, pg>>

\* sync_full, lines 124-140 and 197-200: the head of the notebook loop,
\* list_sections, and the except block of the notebook
FullNotebookLoop ==
    /\ pc = "full_notebook_loop"
    /\ UNCHANGED <<clock, world, db, active_jobs, flags, pg>>
    /\ IF run.nbIdx > Len(run.notebooks)
       THEN pc' = "full_finalize" /\ UNCHANGED <<run, obs>>
       ELSE IF should_stop
       THEN /\ pc' = "full_finalize"
            /\ obs' = [obs EXCEPT !.stop = StopKind]
            /\ UNCHANGED run
       ELSE \E out \in ListOutcomes :
              LET nb == run.notebooks[run.nbIdx]
              IN  IF out = "raise"
                  THEN /\ run' = [run EXCEPT !.errors = @ + 1,
                                     !.error_details = Append(@, <<"Notebook", nb>>),
                                     !.nbIdx = @ + 1]
                       /\ obs' = [obs EXCEPT !.list_failed = @ \cup {"sections"}]
                       /\ UNCHANGED pc
                  ELSE /\ run' = [run EXCEPT
                             !.sections = IF out = "ok" THEN SectionsOf(nb) ELSE <<>>,
                             !.secIdx = 1, !.api_calls = @ + 1]
                       /\ pc' = "full_section_loop"
                       /\ obs' = IF out = "empty"
                                 THEN [obs EXCEPT !.list_failed = @ \cup {"sections"}]
                                 ELSE obs

\* sync_full, lines 143-160 and 192-195: the head of the section loop,
\* list_pages, and the except block of the section.  A break leaves the
\* section loop and the next check of the notebook loop follows at once.
FullSectionLoop ==
    /\ pc = "full_section_loop"
    /\ UNCHANGED <<clock, world, db, active_jobs, flags, pg>>
    /\ IF run.secIdx > Len(run.sections)
       THEN /\ run' = [run EXCEPT !.nbIdx = @ + 1]
            /\ pc' = "full_notebook_loop"
            /\ UNCHANGED obs
       ELSE IF should_stop
       THEN /\ pc' = "full_finalize"
            /\ obs' = [obs EXCEPT !.stop = StopKind]
            /\ UNCHANGED run
       ELSE \E out \in ListOutcomes :
              LET sec == run.sections[run.secIdx]
              IN  IF out = "raise"
                  THEN /\ run' = [run EXCEPT !.errors = @ + 1,
                                     !.error_details = Append(@, <<"Section", sec>>),
                                     !.secIdx = @ + 1]
                       /\ obs' = [obs EXCEPT !.list_failed = @ \cup {"pages"}]
                       /\ UNCHANGED pc
                  ELSE /\ run' = [run EXCEPT
                             !.pages = IF out = "ok" THEN Metas(PagesOf(sec)) ELSE <<>>,
                             !.pgIdx = 1, !.api_calls = @ + 1]
                       /\ pc' = "full_page_loop"
                       /\ obs' = IF out = "empty"
                                 THEN [obs EXCEPT !.list_failed = @ \cup {"pages"}]
                                 ELSE obs

\* sync_full, lines 163-190: the head of the page loop and the call of
\* _sync_page up to its first remote call
FullPageLoop ==
    /\ pc = "full_page_loop"
    /\ UNCHANGED <<clock, world, sync_state, sync_history, active_jobs, flags>>
    /\ IF run.pgIdx > Len(run.pages)
       THEN /\ run' = [run EXCEPT !.secIdx = @ + 1]
            /\ pc' = "full_section_loop"
            /\ UNCHANGED <<docs, images, sync_jobs, pg, obs>>
       ELSE IF should_stop
       THEN /\ pc' = "full_finalize"
            /\ obs' = [obs EXCEPT !.stop = StopKind]
            /\ UNCHANGED <<docs, images, sync_jobs, pg, run>>
       ELSE SyncPageLookup(run.pages[run.pgIdx], FALSE)

\* sync_full, lines 202-277 and 293-296: sync state, result, job row,
\* history row, active_jobs
FullFinalize ==
    /\ pc = "full_finalize"
    /\ sync_state' = Some(State(Some(clock), None,
                                IF run.errors = 0 THEN "completed"
                                ELSE "completed_with_errors"))
    /\ sync_jobs' = [sync_jobs EXCEPT ![run.job_id] =
                        [@ EXCEPT !.status = "completed",
                                  !.total_pages = run.pages_fetched,
                                  !.pages_processed = run.pages_fetched,
                                  !.pages_added = run.pages_added,
                                  !.pages_updated = run.pages_updated,
                                  !.api_calls_made = run.api_calls]]
    /\ sync_history' = Append(sync_history,
                              SyncHistory(run, "full",
                                          IF run.errors = 0 THEN "success"
                                          ELSE "partial_success", 0))
    /\ active_jobs' = active_jobs \ {run.job_id}
    /\ pc' = "idle"
    /\ run' = NoRun
    /\ UNCHANGED <<clock, world, docs, images, flags, pg, obs>>

\* ------------------------------------------------------------------------
\* sync_incremental
\* ------------------------------------------------------------------------

\* sync_incremental, lines 324-346: the job row, active_jobs, the sync state
BeginIncremental(last_sync, requested) ==
    LET j == Len(sync_jobs) + 1
    IN  /\ clock' = clock + 1
        /\ sync_jobs' = Append(sync_jobs, SyncJob("incremental", {}))
        /\ active_jobs' = active_jobs \cup {j}
        /\ sync_state' = update_sync_state_status(sync_state, "syncing", None)
        /\ run' = [NoRun EXCEPT !.job_id = j, !.sync_type = "incremental",
                                !.last_sync = last_sync]
        /\ pg' = NoPage
        /\ pc' = "inc_list_notebooks"
        /\ obs' = [NoObs EXCEPT !.job = j, !.requested = requested,
                                !.prev_incremental = PrevIncremental,
                                !.live_at_start = get_all_page_ids(docs),
                                !.docs_at_start = docs]
        /\ UNCHANGED <<world, docs, images, sync_history, flags>>

\* sync_incremental, lines 313-320: without a last incremental sync it is
\* sync_full that runs
sync_incremental_as(requested) ==
    IF get_last_sync_timestamp(sync_state) = None
    THEN BeginFull({}, requested)
    ELSE BeginIncremental(get_last_sync_timestamp(sync_state), requested)

sync_incremental == sync_incremental_as("incremental")

StartIncremental ==
    /\ pc = "idle"
    /\ Len(sync_jobs) < MaxJobs
    /\ sync_incremental

\* _fetch_all_pages_metadata, lines 781-783; an exception leaves
\* sync_incremental through its except block
IncListNotebooks ==
    /\ pc = "inc_list_notebooks"
    /\ \E out \in ListOutcomes :
         IF out = "raise"
         THEN /\ FailJob
              /\ obs' = [obs EXCEPT !.list_failed = @ \cup {"notebooks"}]
         ELSE /\ run' = [run EXCEPT
                    !.notebooks = IF out = "ok" THEN Notebooks ELSE <<>>,
                    !.nbIdx = 1, !.api_calls = @ + 1]
              /\ pc' = "inc_notebook_loop"
              /\ obs' = IF out = "empty"
                        THEN [obs EXCEPT !.list_failed = @ \cup {"notebooks"}]
                        ELSE obs
              /\ UNCHANGED <<clock, world, db, active_jobs, flags, pg>>

\* _fetch_all_pages_metadata, lines 786-791: list_sections of one notebook
IncListSections ==
    /\ pc = "inc_notebook_loop"
    /\ IF run.nbIdx > Len(run.notebooks)
       THEN /\ pc' = "inc_classify"
            /\ UNCHANGED <<clock, world, db, active_jobs, flags, pg, run, obs>>
       ELSE \E out \in ListOutcomes :
              IF out = "raise"
              THEN /\ FailJob
                   /\ obs' = [obs EXCEPT !.list_failed = @ \cup {"sections"}]
              ELSE /\ run' = [run EXCEPT
                         !.sections = IF out = "ok"
                                      THEN SectionsOf(run.notebooks[run.nbIdx])
                                      ELSE <<>>,
                         !.secIdx = 1, !.api_calls = @ + 1]
                   /\ pc' = "inc_section_loop"
                   /\ obs' = IF out = "empty"
                             THEN [obs EXCEPT !.list_failed = @ \cup {"sections"}]
                             ELSE obs
                   /\ UNCHANGED <<clock, world, db, active_jobs, flags, pg>>

\* _fetch_all_pages_metadata, lines 793-805: list_pages of one section
IncListPages ==
    /\ pc = "inc_section_loop"
    /\ IF run.secIdx > Len(run.sections)
       THEN /\ run' = [run EXCEPT !.nbIdx = @ + 1]
            /\ pc' = "inc_notebook_loop"
            /\ UNCHANGED <<clock, world, db, active_jobs, flags, pg, obs>>
       ELSE \E out \in ListOutcomes :
              IF out = "raise"
              THEN /\ FailJob
                   /\ obs' = [obs EXCEPT !.list_failed = @ \cup {"pages"}]
              ELSE /\ run' = [run EXCEPT
                         !.all_pages = IF out = "ok"
                                       THEN @ \o Metas(PagesOf(run.sections[run.secIdx]))
                                       ELSE @,
                         !.secIdx = @ + 1, !.api_calls = @ + 1]
                   /\ obs' = IF out = "empty"
                             THEN [obs EXCEPT !.list_failed = @ \cup {"pages"}]
                             ELSE obs
                   /\ UNCHANGED <<clock, world, db, active_jobs, flags, pg, pc>>

\* the ids of a list of page metadata
Ids(ms) == {ms[i].id : i \in 1..Len(ms)}

\* sync_incremental, line 373: modified_date > last_sync.  last_sync was
\* written by datetime.now().isoformat() and is naive
ModifiedAfter(m, last_sync) ==
    IF m.fmt = "aware" THEN "TypeError"
    ELSE IF m.modified > The(last_sync) THEN "true" ELSE "false"

\* sync_incremental, lines 358-376: the pages to fetch, in listing order
ChangedPages(ms, last_sync) ==
    SelectSeq(ms, LAMBDA m : m.fmt # "none" /\ ModifiedAfter(m, last_sync) = "true")

\* sync_incremental, line 376: the pages counted as skipped
SkippedPages(ms, last_sync) ==
    SelectSeq(ms, LAMBDA m : m.fmt # "none" /\ ModifiedAfter(m, last_sync) = "false")

\* the set difference taken the wrong way round
DeletedPageIds_reversed(cached_page_ids, graph_page_ids) == graph_page_ids \ cached_page_ids

\* sync_incremental, line 379
DeletedPageIds(cached_page_ids, graph_page_ids) == cached_page_ids \ graph_page_ids

\* sync_incremental, lines 353-385: the comparison with the cache
IncClassify ==
    /\ pc = "inc_classify"
    /\ IF \E i \in 1..Len(run.all_pages) :
            /\ run.all_pages[i].fmt # "none"
            /\ ModifiedAfter(run.all_pages[i], run.last_sync) = "TypeError"
       THEN FailJob /\ UNCHANGED obs
       ELSE /\ run' = [run EXCEPT
                  !.cached_page_ids = get_all_page_ids(docs),
                  !.pages = ChangedPages(run.all_pages, run.last_sync),
                  !.pages_skipped = Len(SkippedPages(run.all_pages, run.last_sync)),
                  !.deleted_page_ids = DeletedPageIds(get_all_page_ids(docs),
                                                      Ids(run.all_pages)),
                  !.pgIdx = 1]
            /\ pc' = "inc_page_loop"
            /\ obs' = [obs EXCEPT
                  !.listed = Ids(run.all_pages),
                  !.skipped = Ids(SkippedPages(run.all_pages, run.last_sync)),
                  !.queued = Ids(ChangedPages(run.all_pages, run.last_sync))]
            /\ UNCHANGED <<clock, world, db, active_jobs, flags, pg>>

\* sync_incremental, lines 388-414: the head of the loop over the changed
\* pages and the call of _sync_page up to its first remote call
IncPageLoop ==
    /\ pc = "inc_page_loop"
    /\ UNCHANGED <<clock, world, sync_state, sync_history, active_jobs, flags>>
    /\ IF run.pgIdx > Len(run.pages)
       THEN /\ pc' = "inc_finalize"
            /\ UNCHANGED <<docs, images, sync_jobs, pg, run, obs>>
       ELSE IF should_stop
       THEN /\ pc' = "inc_finalize"
            /\ obs' = [obs EXCEPT !.stop = StopKind]
            /\ UNCHANGED <<docs, images, sync_jobs, pg, run>>
       ELSE SyncPageLookup(run.pages[run.pgIdx],
                           run.pages[run.pgIdx].id \notin run.cached_page_ids)

\* sync_incremental, lines 416-505 and 521-524: the tombstones, sync state,
\* result, job row, history row, active_jobs
IncFinalize ==
    /\ pc = "inc_finalize"
    /\ docs' = mark_documents_deleted(docs, run.deleted_page_ids)
    /\ sync_state' = Some(State(None, Some(clock),
                                IF run.errors = 0 THEN "completed"
                                ELSE "completed_with_errors"))
    /\ sync_jobs' = [sync_jobs EXCEPT ![run.job_id] =
                        [@ EXCEPT !.status = "completed",
                                  !.total_pages = Len(run.all_pages),
                                  !.pages_processed = run.pages_fetched,
                                  !.pages_added = run.pages_added,
                                  !.pages_updated = run.pages_updated,
                                  !.pages_deleted = Cardinality(run.deleted_page_ids),
                                  !.api_calls_made = run.api_calls]]
    /\ sync_history' = Append(sync_history,
                              SyncHistory(run, "incremental",
                                          IF run.errors = 0 THEN "success"
                                          ELSE "partial_success",
                                          Cardinality(run.deleted_page_ids)))
    /\ active_jobs' = active_jobs \ {run.job_id}
    /\ pc' = "idle"
    /\ run' = NoRun
    /\ UNCHANGED <<clock, world, images, flags, pg, obs>>

\* ------------------------------------------------------------------------
\* The specification
\* ------------------------------------------------------------------------

Next ==
    \/ PauseSync
    \/ ResumeSync
    \/ CancelSync
    \/ StartFull
    \/ FullListNotebooks
    \/ FullNotebookLoop
    \/ FullSectionLoop
    \/ FullPageLoop
    \/ FullFinalize
    \/ StartIncremental
    \/ IncListNotebooks
    \/ IncListSections
    \/ IncListPages
    \/ IncClassify
    \/ IncPageLoop
    \/ IncFinalize
    \/ SyncPageFetch
    \/ SyncPageDownload
    \/ SyncPageCache
    \/ SyncPageStore

Spec == Init /\ [][Next]_vars

\* A cache filled when page p2 had two images: the rows of onenote_images
\* (page_id, image_index) an earlier sync wrote for it
CachedImages == {<<"p2", 0>>, <<"p2", 1>>}

\* the databases of that cache, left by a full and by an incremental sync;
\* p2 has one image remotely now and a newer lastModifiedDateTime
ImageDatabases ==
    { [state |-> Some(State(Some(0), None, "completed")),
       docs |-> [p \in {"p1", "p2"} |->
                    Row(0, FALSE, FALSE, 1, IF p = "p2" THEN 2 ELSE 0)]],
      [state |-> Some(State(None, Some(0), "completed")),
       docs |-> [p \in {"p1", "p2"} |->
                    Row(0, FALSE, FALSE, 1, IF p = "p2" THEN 2 ELSE 0)]] }

SpecImages == InitWith(ImageDatabases, CachedImages) /\ [][Next]_vars

\* Remote notebooks in which the content of page p2 has two <img> tags
TwoImageWorlds ==
    { [w EXCEPT !["p2"].images = 2] : w \in RemoteWorlds }

\* a new process in front of those notebooks, with one of the databases of
\* InitDatabases and no cached image row
InitTwoImages ==
    /\ clock = 1
    /\ remote \in TwoImageWorlds
    /\ \E d \in InitDatabases : sync_state = d.state /\ docs = d.docs
    /\ images = {}
    /\ sync_jobs = <<>>
    /\ sync_history = <<>>
    /\ active_jobs = {}
    /\ pause_requested = FALSE
    /\ cancel_requested = FALSE
    /\ pc = "idle"
    /\ run = NoRun
    /\ pg = NoPage
    /\ obs = NoObs
    /\ now = StartTime
    /\ limiter = RateLimiter(ProductionConfig)
    /\ called = NoCalls(limiter)
    /\ req = NoRequest
    /\ api = NoApi

SpecTwoImages == InitTwoImages /\ [][Next]_vars

\* A cache in which an incremental sync tombstoned page p1 (the page was not
\* in the listing of that sync) and the page is listed again now; the sync
\* ran before or after the lastModifiedDateTime of the page.
TombstoneDatabases ==
    { [state |-> Some(State(None, Some(t), "completed")),
       docs |-> [p \in {"p1", "p2"} |->
                    Row(IF p = "p1" THEN 0 ELSE t, FALSE, p = "p1", 1, 0)]]
      : t \in {0, 1} }

SpecTombstone == InitFrom(TombstoneDatabases) /\ [][Next]_vars

\* The finalization with its database writes as separate statements.  Each
\* write opens a connection, executes and commits; sqlite3 raises when the
\* statement cannot be executed (database locked, disk full) and the
\* exception reaches the except block of the sync method.
WriteOutcomes == {"ok", "raise"}

\* sync_full, lines 202-248: upsert_sync_state and update_sync_job with the
\* status "completed", both committed
FullCompleteJob ==
    /\ pc = "full_finalize"
    /\ \E out \in WriteOutcomes :
         IF out = "raise"
         THEN FailJob
         ELSE /\ sync_state' = Some(State(Some(clock), None,
                                          IF run.errors = 0 THEN "completed"
                                          ELSE "completed_with_errors"))
              /\ sync_jobs' = [sync_jobs EXCEPT ![run.job_id] =
                                  [@ EXCEPT !.status = "completed",
                                            !.total_pages = run.pages_fetched,
                                            !.pages_processed = run.pages_fetched,
                                            !.pages_added = run.pages_added,
                                            !.pages_updated = run.pages_updated,
                                            !.api_calls_made = run.api_calls]]
              /\ pc' = "full_history"
              /\ UNCHANGED <<clock, world, docs, images, sync_history, active_jobs,
                             flags, run, pg>>
    /\ UNCHANGED obs

\* sync_incremental, lines 416-474: the tombstones, upsert_sync_state and
\* update_sync_job with the status "completed"
IncCompleteJob ==
    /\ pc = "inc_finalize"
    /\ \E out \in WriteOutcomes :
         IF out = "raise"
         THEN FailJob
         ELSE /\ docs' = mark_documents_deleted(docs, run.deleted_page_ids)
              /\ sync_state' = Some(State(None, Some(clock),
                                          IF run.errors = 0 THEN "completed"
                                          ELSE "completed_with_errors"))
              /\ sync_jobs' = [sync_jobs EXCEPT ![run.job_id] =
                                  [@ EXCEPT !.status = "completed",
                                            !.total_pages = Len(run.all_pages),
                                            !.pages_processed = run.pages_fetched,
                                            !.pages_added = run.pages_added,
                                            !.pages_updated = run.pages_updated,
                                            !.pages_deleted = Cardinality(run.deleted_page_ids),
                                            !.api_calls_made = run.api_calls]]
              /\ pc' = "inc_history"
              /\ UNCHANGED <<clock, world, images, sync_history, active_jobs,
                             flags, run, pg>>
    /\ UNCHANGED obs

\* sync_full, lines 250-277, and sync_incremental, lines 476-505:
\* create_sync_history and the return; when the insert raises, the except
\* and finally blocks run
CreateSyncHistory ==
    /\ pc \in {"full_history", "inc_history"}
    /\ \E out \in WriteOutcomes :
         IF out = "raise"
         THEN FailJob
         ELSE /\ sync_history' =
                    Append(sync_history,
                           SyncHistory(run, run.sync_type,
                                       IF run.errors = 0 THEN "success"
                                       ELSE "partial_success",
                                       IF pc = "inc_history"
                                       THEN Cardinality(run.deleted_page_ids) ELSE 0))
              /\ active_jobs' = active_jobs \ {run.job_id}
              /\ pc' = "idle"
              /\ run' = NoRun
              /\ UNCHANGED <<clock, world, docs, images, sync_state, sync_jobs,
                             flags, pg>>
    /\ UNCHANGED obs

NextFinalize ==
    \/ PauseSync
    \/ ResumeSync
    \/ CancelSync
    \/ StartFull
    \/ FullListNotebooks
    \/ FullNotebookLoop
    \/ FullSectionLoop
    \/ FullPageLoop
    \/ FullCompleteJob
    \/ StartIncremental
    \/ IncListNotebooks
    \/ IncListSections
    \/ IncListPages
    \/ IncClassify
    \/ IncPageLoop
    \/ IncCompleteJob
    \/ CreateSyncHistory
    \/ SyncPageFetch
    \/ SyncPageDownload
    \/ SyncPageCache
    \/ SyncPageStore

SpecFinalize == Init /\ [][NextFinalize]_vars

\* the downstream indexer (api/routes.py 795-803, sync_integration.py
\* 224-230) has indexed a document of the cache and marks it
MarkDocumentIndexed ==
    /\ \E p \in get_all_documents(docs) :
         /\ docs[p].indexed_at # Some(clock)
         /\ docs' = mark_document_indexed(docs, p, clock)
    /\ UNCHANGED <<clock, world, images, sync_state, sync_jobs, sync_history,
                   active_jobs, flags, pc, run, pg, obs>>

\* one sync with nobody calling pause_sync or cancel_sync, and the indexer
NextIndex ==
    \/ StartFull
    \/ FullListNotebooks
    \/ FullNotebookLoop
    \/ FullSectionLoop
    \/ FullPageLoop
    \/ FullFinalize
    \/ StartIncremental
    \/ IncListNotebooks
    \/ IncListSections
    \/ IncListPages
    \/ IncClassify
    \/ IncPageLoop
    \/ IncFinalize
    \/ SyncPageFetch
    \/ SyncPageDownload
    \/ SyncPageCache
    \/ SyncPageStore
    \/ MarkDocumentIndexed

SpecIndex == Init /\ [][NextIndex]_vars

\* sync_incremental called again after a sync_incremental, with nobody
\* calling pause_sync or cancel_sync: one more run than Spec allows
RerunIncremental ==
    /\ pc = "idle"
    /\ Len(sync_jobs) < MaxJobs + 1
    /\ sync_incremental

NextRerun ==
    \/ RerunIncremental
    \/ FullListNotebooks
    \/ FullNotebookLoop
    \/ FullSectionLoop
    \/ FullPageLoop
    \/ FullFinalize
    \/ IncListNotebooks
    \/ IncListSections
    \/ IncListPages
    \/ IncClassify
    \/ IncPageLoop
    \/ IncFinalize
    \/ SyncPageFetch
    \/ SyncPageDownload
    \/ SyncPageCache
    \/ SyncPageStore

SpecRerun == Init /\ [][NextRerun]_vars

\* timedelta.days of (t - then) for t >= then: whole days, rounded down
DaysSince(then, t) == (t - then) \div TicksPerDay

\* sync_smart, lines 549-568: the choice between the two strategies
SmartChoice(st, t) ==
    IF st = None \/ The(st).last_full_sync_at = None
    THEN "full"
    ELSE IF DaysSince(The(The(st).last_full_sync_at), t) > StaleDays
    THEN "full"
    ELSE IF The(st).sync_status = "error"
    THEN "full"
    ELSE "incremental"

\* sync_smart: the strategy chosen is called at once, in the same thread
sync_smart ==
    IF SmartChoice(sync_state, clock) = "full"
    THEN BeginFull({}, "smart_full")
    ELSE sync_incremental_as("smart_incremental")

StartSmart ==
    /\ pc = "idle"
    /\ Len(sync_jobs) < MaxJobs
    /\ sync_smart

\* sync_smart called on the databases it can find, with nobody calling
\* pause_sync or cancel_sync.  No database has a last incremental sync
\* next to a last full sync, so the incremental pass never starts here.
NextSmart ==
    \/ StartSmart
    \/ FullListNotebooks
    \/ FullNotebookLoop
    \/ FullSectionLoop
    \/ FullPageLoop
    \/ FullFinalize
    \/ SyncPageFetch
    \/ SyncPageDownload
    \/ SyncPageCache
    \/ SyncPageStore

SpecSmart == InitFrom(SmartDatabases) /\ [][NextSmart]_vars

\* ------------------------------------------------------------------------
\* The rate limiter (services/rate_limiter.py), called by one thread
\* ------------------------------------------------------------------------

Min(a, b) == IF a <= b THEN a ELSE b
Max(a, b) == IF a >= b THEN a ELSE b

\* _refill_tokens without the min of line 71
refill_tokens_uncapped(l, t) ==
    [l EXCEPT !.tokens = l.tokens + (t - l.last_refill) * l.requests_per_minute,
              !.last_refill = t]

\* RateLimiter._refill_tokens at time t
refill_tokens(l, t) ==
    [l EXCEPT !.tokens = Min(l.max_tokens,
                             l.tokens + (t - l.last_refill) * l.requests_per_minute),
              !.last_refill = t]

\* acquire without lines 87-98: no minimum interval is enforced
IntervalWait_none(l, t) == 0

\* acquire, lines 87-91: the wait that enforces the minimum interval
IntervalWait(l, t) ==
    IF t - l.last_request < l.min_interval
    THEN l.min_interval - (t - l.last_request)
    ELSE 0

\* acquire, line 106: the wait until the next token.  time.sleep returns
\* after at least the time asked for: here at the next tick.
TokenWait(l) ==
    ((Token - l.tokens) + l.requests_per_minute - 1) \div l.requests_per_minute

\* RateLimiter.acquire called at time t: the limiter it leaves, the time at
\* which it returns, and its result
acquire(l, t, wait) ==
    LET l1 == refill_tokens(l, t)
        t2 == t + IntervalWait(l1, t)
    IN  IF t2 > t /\ ~wait
        THEN [l |-> l1, t |-> t, ok |-> FALSE]
        ELSE IF l1.tokens < Token
        THEN IF ~wait
             THEN [l |-> l1, t |-> t2, ok |-> FALSE]
             ELSE LET t3 == t2 + TokenWait(l1)
                      l3 == refill_tokens(l1, t3)
                  IN  [l |-> [l3 EXCEPT !.tokens = @ - Token, !.last_request = t3],
                       t |-> t3, ok |-> TRUE]
        ELSE [l |-> [l1 EXCEPT !.tokens = @ - Token, !.last_request = t2],
              t |-> t2, ok |-> TRUE]

\* handle_rate_limit_error without the sleep of line 137
RetryWait_none(retry_after) == 0

\* handle_rate_limit_error, line 127: retry_after if retry_after else 60
RetryWait(retry_after) ==
    IF retry_after # None /\ The(retry_after) # 0
    THEN The(retry_after)
    ELSE Minute

\* RateLimiter.handle_rate_limit_error called at time t, after its sleep
handle_rate_limit_error(l, t) ==
    [l EXCEPT !.tokens = l.max_tokens \div 2, !.last_refill = t]

\* x * num / den at the scale of requests_per_minute
Times(x, num, den) == (x * num) \div den

\* AdaptiveRateLimiter.record_success
record_success(l) ==
    IF l.consecutive_successes + 1 >= SpeedUpAfter
    THEN [l EXCEPT !.requests_per_minute =
                       Min(l.original_rpm, Times(l.requests_per_minute, 11, 10)),
                   !.consecutive_successes = 0,
                   !.consecutive_errors = 0]
    ELSE [l EXCEPT !.consecutive_successes = @ + 1,
                   !.consecutive_errors = 0]

\* AdaptiveRateLimiter.record_error
record_error(l, is_rate_limit) ==
    IF is_rate_limit
    THEN [l EXCEPT !.requests_per_minute =
                       Max(RateLimitFloor * RpmScale, Times(l.requests_per_minute, 1, 2)),
                   !.consecutive_errors = @ + 1,
                   !.consecutive_successes = 0]
    ELSE IF l.consecutive_errors + 1 >= ErrorsBeforeSlowdown
    THEN [l EXCEPT !.requests_per_minute =
                       Max(ErrorFloor * RpmScale, Times(l.requests_per_minute, 8, 10)),
                   !.consecutive_errors = 0,
                   !.consecutive_successes = 0]
    ELSE [l EXCEPT !.consecutive_errors = @ + 1,
                   !.consecutive_successes = 0]

\* The limiter as built, and two limiters in use whose bucket has filled up
\* again: one that was slowed down by a rate limit error and has since seen
\* all but two of the successes that speed it up, one that has seen all but
\* two of the errors that slow it down.  With a full bucket last_refill has
\* no effect on what follows.
LimiterStates ==
    UNION { { RateLimiter(cfg),
              [record_error(RateLimiter(cfg), TRUE) EXCEPT
                   !.consecutive_successes = SpeedUpAfter - 2,
                   !.consecutive_errors = 0],
              [RateLimiter(cfg) EXCEPT
                   !.consecutive_errors = ErrorsBeforeSlowdown - 2] }
            : cfg \in Configs }

\* Retry-After of a 429 response as _make_request_with_retry passes it on
\* (onenote_service.py lines 148-155), in ticks: no header, 0, 2
RetryAfters == {None, Some(0), Some(2)}

InitLimiter ==
    /\ clock = 1
    /\ remote = CHOOSE w \in RemoteWorlds : TRUE
    /\ sync_state = None
    /\ docs = <<>>
    /\ images = {}
    /\ sync_jobs = <<>>
    /\ sync_history = <<>>
    /\ active_jobs = {}
    /\ pause_requested = FALSE
    /\ cancel_requested = FALSE
    /\ pc = "idle"
    /\ run = NoRun
    /\ pg = NoPage
    /\ obs = NoObs
    /\ now = StartTime
    /\ limiter \in LimiterStates
    /\ called = NoCalls(limiter)
    /\ req = NoRequest
    /\ api = NoApi

\* time passes between two calls
Tick ==
    /\ now < MaxTime
    /\ now' = now + 1
    /\ UNCHANGED <<sync, limiter, called, req, api>>

Acquire ==
    \E wait \in BOOLEAN :
        LET r == acquire(limiter, now, wait)
        IN  /\ r.t <= MaxTime
            /\ limiter' = r.l
            /\ now' = r.t
            /\ called' = [called EXCEPT
                   !.granted = IF r.ok THEN Append(@, r.t) ELSE @,
                   !.last_op = "acquire"]
            /\ UNCHANGED <<sync, req, api>>

HandleRateLimitError ==
    \E retry_after \in RetryAfters :
        /\ now + RetryWait(retry_after) <= MaxTime
        /\ limiter' = handle_rate_limit_error(limiter, now)
        /\ now' = now + RetryWait(retry_after)
        /\ called' = [called EXCEPT
               !.last_op = "handle_rate_limit_error",
               !.pre_rpm = limiter.requests_per_minute,
               !.error = Some([at |-> now, retry_after |-> retry_after,
                               granted |-> Len(called.granted)])]
        /\ UNCHANGED <<sync, req, api>>

Recorded(l, op) ==
    [called EXCEPT !.records = @ + 1,
                  !.max_rpm = Max(@, l.requests_per_minute),
                  !.last_op = op]

RecordSuccess ==
    /\ called.records < MaxRecords
    /\ limiter' = record_success(limiter)
    /\ called' = Recorded(limiter', "record_success")
    /\ UNCHANGED <<sync, now, req, api>>

\* record_error(is_rate_limit=True) right after handle_rate_limit_error is
\* the 429 branch of _make_request_with_retry (onenote_service.py 155-156)
RecordError ==
    \E is_rate_limit \in BOOLEAN :
        /\ called.records < MaxRecords
        /\ limiter' = record_error(limiter, is_rate_limit)
        /\ called' = Recorded(limiter',
               IF is_rate_limit /\ called.last_op = "handle_rate_limit_error"
               THEN "handled_429" ELSE "record_error")
        /\ UNCHANGED <<sync, now, req, api>>

NextLimiter ==
    \/ Tick
    \/ Acquire
    \/ HandleRateLimitError
    \/ RecordSuccess
    \/ RecordError

SpecLimiter == InitLimiter /\ [][NextLimiter]_vars

\* ------------------------------------------------------------------------
\* OneNoteService.get_page_content (the loop of _make_request_with_retry is
\* the same)
\* ------------------------------------------------------------------------

\* max_retries
MaxRetries == 3

\* What one session.get can come to: a 2xx response, a 429, an HTTPError
\* with a status of 500 or more, any other RequestException
Responses == {"ok", "429", "5xx", "error"}

\* time.sleep(seconds) in ticks: it returns at the next tick at the earliest
Ticks(seconds) == (seconds * Minute + 59) \div 60

\* retry_delay in the given pass of the loop before any 429: 2, 4, ...
\* seconds.  A 429 leaves retry_delay as it is, which only shortens the
\* wait; the wait is one tick either way.
RetryDelay(attempt) == 2 * 2 ^ attempt

\* One pass of the loop, lines 302-351, entered at time t with the limiter
\* l: the limiter and the time at the end of the pass, when the request was
\* sent, and what the call has come to ("pending": the loop goes on)
attempt_request(l, t, attempt, resp, retry_after) ==
    LET a == acquire(l, t, TRUE)
    IN  IF resp = "429"
        THEN [l |-> record_error(handle_rate_limit_error(a.l, a.t), TRUE),
              t |-> a.t + RetryWait(retry_after),
              sent |-> a.t,
              result |-> IF attempt + 1 < MaxRetries THEN "pending" ELSE "none"]
        ELSE IF resp = "ok"
        THEN [l |-> record_success(a.l), t |-> a.t, sent |-> a.t, result |-> "html"]
        ELSE IF resp = "5xx" /\ attempt < MaxRetries - 1
        THEN [l |-> record_error(a.l, FALSE),
              t |-> a.t + Ticks(RetryDelay(attempt)),
              sent |-> a.t,
              result |-> "pending"]
        ELSE [l |-> record_error(a.l, FALSE), t |-> a.t, sent |-> a.t,
              result |-> "none"]

\* get_page_content is called
GetPageContent ==
    /\ req.result = "idle"
    /\ req' = [NoRequest EXCEPT !.result = "pending"]
    /\ UNCHANGED <<sync, now, limiter, called, api>>

\* one pass of its loop
Attempt ==
    /\ req.result = "pending"
    /\ \E resp \in Responses, retry_after \in RetryAfters :
         LET r == attempt_request(limiter, now, req.attempt, resp, retry_after)
         IN  /\ resp # "429" => retry_after = None
             /\ limiter' = r.l
             /\ now' = r.t
             /\ req' = [attempt |-> req.attempt + 1,
                        responses |-> Append(req.responses, resp),
                        result |-> r.result]
             /\ called' = [called EXCEPT
                    !.granted = Append(@, r.sent),
                    !.max_rpm = Max(@, r.l.requests_per_minute),
                    !.last_op = "get_page_content"]
    /\ UNCHANGED <<sync, api>>

NextRequest ==
    \/ GetPageContent
    \/ Attempt

SpecRequest == InitLimiter /\ [][NextRequest]_vars

\* ------------------------------------------------------------------------
\* SyncOrchestrator._download_image
\* ------------------------------------------------------------------------

\* number of images downloaded in one behaviour
MaxDownloads == 2

\* max_retries of _download
DownloadRetries == 3

\* the hardcoded wait after a 429 on an image resource, in seconds
ImageWait == 600

\* what requests.get and raise_for_status come to: a 2xx response, a 429,
\* or an exception (another status, a timeout)
DownloadResponses == {"ok", "429", "error"}

\* the orchestrator shares the limiter of its OneNoteService
InitDownload ==
    /\ InitLimiter
    /\ limiter.original_rpm = ProductionConfig.requests_per_minute * RpmScale

\* _download_image is called with a Graph URL: _download starts with its one
\* acquire(wait=True), before the retry loop.  req.responses keeps the
\* responses of all the requests sent so far.
DownloadImage ==
    /\ req.result # "pending"
    /\ Len(called.granted) < MaxDownloads
    /\ LET a == acquire(limiter, now, TRUE)
       IN  /\ limiter' = a.l
           /\ now' = a.t
           /\ called' = [called EXCEPT !.granted = Append(@, a.t),
                                       !.last_op = "download_image"]
    /\ req' = [req EXCEPT !.attempt = 0, !.result = "pending"]
    /\ UNCHANGED <<sync, api>>

\* one pass of the retry loop of _download: requests.get and what follows
DownloadAttempt ==
    /\ req.result = "pending"
    /\ \E resp \in DownloadResponses :
         /\ limiter' = IF resp = "429" THEN record_error(limiter, TRUE)
                       ELSE IF resp = "ok" THEN record_success(limiter)
                       ELSE limiter
         /\ now' = IF resp = "429" /\ req.attempt < DownloadRetries - 1
                   THEN now + Ticks(ImageWait) ELSE now
         /\ req' = [attempt |-> req.attempt + 1,
                    responses |-> Append(req.responses, resp),
                    result |-> IF resp = "ok" THEN "bytes"
                               ELSE IF resp = "429" /\ req.attempt < DownloadRetries - 1
                               THEN "pending" ELSE "none"]
         /\ called' = [called EXCEPT
                !.max_rpm = Max(@, limiter'.requests_per_minute),
                !.last_op = "download_image"]
    /\ UNCHANGED <<sync, api>>

NextDownload ==
    \/ DownloadImage
    \/ DownloadAttempt

SpecDownload == InitDownload /\ [][NextDownload]_vars

\* ------------------------------------------------------------------------
\* A sync run with the retry loops of its remote calls
\* ------------------------------------------------------------------------

\* what one pass of the loop of _download comes to (lines 905-936): the
\* bytes, another pass after a 429 while passes are left, or None
download_result(attempt, resp) ==
    IF resp = "ok" THEN "bytes"
    ELSE IF resp = "429" /\ attempt < DownloadRetries - 1 THEN "pending"
    ELSE "none"

\* _sync_page, line 648: one pass of the retry loop of get_page_content.
\* The waits of the limiter are not timed in a sync run.
PageContentAttempt ==
    /\ pc = "page_fetch"
    /\ req.result \in {"idle", "pending"}
    /\ \E resp \in Responses :
         req' = [attempt |-> req.attempt + 1,
                 responses |-> Append(req.responses, resp),
                 result |-> attempt_request(limiter, now, req.attempt,
                                            resp, None).result]
    /\ UNCHANGED <<sync, now, limiter, called, api>>

\* get_page_content has returned the HTML or None: the rest of lines 647-681
PageContentReturned ==
    /\ pc = "page_fetch"
    /\ req.result \in ContentOutcomes
    /\ LET found == IF req.result = "html" THEN remote[pg.id].images ELSE 0
           existing_images == get_images_for_page(images, pg.id)
           reuse == ~pg.is_new /\ Cardinality(existing_images) > 0
                    /\ Cardinality(existing_images) = found
       IN  /\ pg' = [pg EXCEPT !.found = found,
                       !.downloaded = IF reuse
                                      THEN [i \in 1..found |-> [src |-> i - 1, cached |-> TRUE]]
                                      ELSE <<>>]
           /\ pc' = IF reuse \/ found = 0 THEN "page_cache" ELSE "page_download"
    /\ obs' = [obs EXCEPT !.fetched = @ \cup {pg.id}]
    /\ req' = NoRequest
    /\ UNCHANGED <<clock, remote, now, limiter, called, api, db, active_jobs,
                   flags, run>>

\* _sync_page, line 690: one pass of the retry loop of _download
PageDownloadAttempt ==
    /\ pc = "page_download"
    /\ req.result \in {"idle", "pending"}
    /\ \E resp \in DownloadResponses :
         req' = [attempt |-> req.attempt + 1,
                 responses |-> Append(req.responses, resp),
                 result |-> download_result(req.attempt, resp)]
    /\ UNCHANGED <<sync, now, limiter, called, api>>

\* _download_image has returned the bytes or None: lines 691-695
PageDownloadReturned ==
    /\ pc = "page_download"
    /\ req.result \in DownloadOutcomes
    /\ pg' = [pg EXCEPT !.dl = @ + 1,
                !.downloaded = IF req.result = "bytes"
                               THEN Append(@, [src |-> pg.dl, cached |-> FALSE])
                               ELSE @]
    /\ pc' = IF pg.dl + 1 = pg.found THEN "page_cache" ELSE "page_download"
    /\ req' = NoRequest
    /\ UNCHANGED <<clock, remote, now, limiter, called, api, db, active_jobs,
                   flags, run, obs>>

\* the steps of the coroutine of a started sync
RunStep ==
    \/ FullListNotebooks
    \/ FullNotebookLoop
    \/ FullSectionLoop
    \/ FullPageLoop
    \/ FullFinalize
    \/ IncListNotebooks
    \/ IncListSections
    \/ IncListPages
    \/ IncClassify
    \/ IncPageLoop
    \/ IncFinalize
    \/ PageContentAttempt
    \/ PageContentReturned
    \/ PageDownloadAttempt
    \/ PageDownloadReturned
    \/ SyncPageCache
    \/ SyncPageStore

NextTermination ==
    \/ PauseSync
    \/ ResumeSync
    \/ CancelSync
    \/ StartFull
    \/ StartIncremental
    \/ RunStep

\* Every remote call returns and no await of the coroutine blocks for ever:
\* a started sync keeps taking steps.  Nothing is assumed about the callers
\* of pause_sync, resume_sync and cancel_sync or about new syncs.
SpecTermination ==
    InitTwoImages /\ [][NextTermination]_vars /\ WF_vars(RunStep)

\* ------------------------------------------------------------------------
\* The adaptive rate of the limiter OneNoteService builds
\* ------------------------------------------------------------------------

\* number of requests whose outcome is reported in one behaviour
MaxOutcomes == 6

\* what a caller reports after a request (onenote_service.py 156, 163,
\* 173 and 183): record_success(), record_error(is_rate_limit=True) or
\* record_error(is_rate_limit=False)
Outcomes == {"success", "rate_limit", "error"}

InitReport ==
    /\ InitLimiter
    /\ limiter = RateLimiter(ProductionConfig)

\* record_success after a request that succeeded
ReportSuccess ==
    /\ Len(called.outcomes) < MaxOutcomes
    /\ limiter' = record_success(limiter)
    /\ called' = [Recorded(limiter', "record_success") EXCEPT
                      !.outcomes = Append(@, "success")]
    /\ UNCHANGED <<sync, now, req, api>>

\* record_error after a request that failed
ReportError ==
    /\ Len(called.outcomes) < MaxOutcomes
    /\ \E is_rate_limit \in BOOLEAN :
         /\ limiter' = record_error(limiter, is_rate_limit)
         /\ called' = [Recorded(limiter', "record_error") EXCEPT
                           !.outcomes = Append(@, IF is_rate_limit THEN "rate_limit"
                                                   ELSE "error")]
    /\ UNCHANGED <<sync, now, req, api>>

NextReport ==
    \/ ReportSuccess
    \/ ReportError

SpecReport == InitReport /\ [][NextReport]_vars

\* ------------------------------------------------------------------------
\* The sync endpoints (api/sync_routes.py)
\* ------------------------------------------------------------------------

\* number of trigger requests in one behaviour
MaxRequests == 2

\* The values uuid.uuid4() can return.  Every call returns a value no earlier
\* call returned; each request draws one in the endpoint and one in the
\* orchestrator.
Uuids == 1..(2 * MaxRequests)

\* uuid.uuid4(): the values a call can return after those of drawn
uuid4(drawn) == Uuids \ drawn

\* DocumentCacheDB.get_sync_job: the row with that job_id, if any
get_sync_job(jobs, id) ==
    IF \E i \in 1..Len(jobs) : jobs[i].job_id = id
    THEN Some(jobs[CHOOSE i \in 1..Len(jobs) : jobs[i].job_id = id])
    ELSE None

\* SyncOrchestrator.get_job_status
get_job_status(jobs, id) == get_sync_job(jobs, id)

\* trigger_full_sync, trigger_incremental_sync, trigger_smart_sync: run_sync
\* is added to the background tasks, a job id is generated in the endpoint
\* and returned in the SyncJobResponse
TriggerSync ==
    /\ Len(api.returned) < MaxRequests
    /\ \E job_id \in uuid4(api.drawn) :
         api' = [api EXCEPT !.tasks = @ + 1,
                            !.drawn = @ \cup {job_id},
                            !.returned = Append(@, job_id)]
    /\ UNCHANGED <<sync, now, limiter, called, req>>

\* run_sync starts: sync_full / sync_incremental generate the job id and
\* create the sync_jobs row under it (sync_orchestrator.py 85-96, 322-333);
\* the later updates of the row are keyed by this job_id and keep it
RunSync ==
    /\ api.tasks > 0
    /\ \E job_id \in uuid4(api.drawn) :
         api' = [api EXCEPT !.tasks = @ - 1,
                            !.drawn = @ \cup {job_id},
                            !.jobs = Append(@, [job_id |-> job_id,
                                                status |-> "running"])]
    /\ UNCHANGED <<sync, now, limiter, called, req>>

\* get_sync_status with a job id a trigger endpoint returned: 200 with the
\* job, or 404 when get_job_status finds none
GetSyncStatus ==
    /\ \E i \in 1..Len(api.returned) :
         LET job_id == api.returned[i]
             job == get_job_status(api.jobs, job_id)
         IN  api' = [api EXCEPT !.response =
                        Some([job_id |-> job_id,
                              code |-> IF job = None THEN 404 ELSE 200])]
    /\ UNCHANGED <<sync, now, limiter, called, req>>

NextApi ==
    \/ TriggerSync
    \/ RunSync
    \/ GetSyncStatus

SpecApi == InitLimiter /\ [][NextApi]_vars

\* ------------------------------------------------------------------------
\* Properties
\* ------------------------------------------------------------------------

\* the run obs describes has returned
Finished == pc = "idle" /\ obs.job # 0

\* the persisted row of that run
Job == sync_jobs[obs.job]

\* the sync_history rows of that run
HistoryRows == {i \in 1..Len(sync_history) : sync_history[i].job_id = obs.job}

\* page p has a live document row and one image row for every image the
\* row counts
PageWrittenIn(d, im, p) ==
    /\ p \in DOMAIN d
    /\ ~d[p].is_deleted
    /\ \A i \in 0..(d[p].image_count - 1) : <<p, i>> \in im

\* the pages sync_full walks through under a notebook filter
TraversalPages(ids) ==
    UNION { UNION { {PagesOf(sec)[i] : i \in 1..Len(PagesOf(sec))}
                    : sec \in {SectionsOf(nb)[k] : k \in 1..Len(SectionsOf(nb))} }
            : nb \in {Notebooks[n] : n \in {m \in 1..Len(Notebooks) :
                                            ids = {} \/ Notebooks[m] \in ids}} }

\* cancel_sync was called while a page was in progress and the run stopped
\* on the cancel flag
CancelledMidRun == obs.job # 0 /\ obs.cancel_mid /\ obs.stop \in {"cancel", "both"}

\* C1: when cancel_sync() is requested while a sync is processing pages, no
\* further page is processed once the flag is observed, and the job's final
\* persisted status is "cancelled".
C1_CancelEndsCancelled ==
    CancelledMidRun =>
        /\ pc \in FinalizePcs \cup {"idle"}
        /\ pc = "idle" => Job.status = "cancelled"

C3_NotFinalizedWhilePaused ==
    (obs.job # 0 /\ obs.pause_mid /\ obs.stop = "pause" /\ pause_requested) =>
        Job.status \notin Terminal

\* what a step taken from the middle of a page does
MidPageStep ==
    pc \in PageStages =>
        /\ pc' \in PagePcs
        /\ obs'.stop = obs.stop
        /\ (pc' \notin PageStages /\ pg.id \notin obs'.failed) =>
              PageWrittenIn(docs', images', pg.id)

C5_PageFailureDoesNotAbort ==
    (Finished /\ Job.sync_type = "full" /\ obs.failed # {}) =>
        /\ Job.status = "completed"
        /\ (obs.stop = "none" /\ obs.list_failed = {}) =>
              obs.attempted = TraversalPages(Job.notebook_ids)

\* C5 witness: the first page failed, the last one was committed
C5_Witness ==
    /\ Finished
    /\ Job.sync_type = "full"
    /\ Job.status = "completed"
    /\ "p1" \in obs.failed
    /\ "p3" \in obs.committed
    /\ obs.attempted = RemotePages

\* C6: after a sync in which a page failed, the persisted job has
\* error_count > 0 and a last_error, and its history row has
\* errors_encountered > 0 and error_details.
C6_PageFailureRecorded ==
    (Finished /\ obs.failed # {}) =>
        /\ Job.error_count > 0
        /\ Job.last_error # None
        /\ \E i \in HistoryRows :
              /\ sync_history[i].errors_encountered > 0
              /\ sync_history[i].error_details # <<>>

\* C7: in sync_full, when listing the notebooks or the sections of a notebook
\* fails, the job ends "failed", no page is processed after the failure, and
\* the rows committed before it remain.
C7_ListingFailureAbortsFull ==
    (Finished /\ Job.sync_type = "full"
       /\ obs.list_failed \cap {"notebooks", "sections"} # {}) =>
        /\ Job.status = "failed"
        /\ obs.after_fail = {}
        /\ \A p \in obs.committed : p \in DOMAIN docs

C9_SecondRunSkipsAll ==
    (Finished /\ obs.requested = "incremental" /\ obs.prev_incremental
       /\ Job.status = "completed" /\ obs.failed = {} /\ obs.list_failed = {}
       /\ \A p \in RemotePages : remote[p].fmt # "none") =>
        \A i \in HistoryRows :
            /\ sync_history[i].pages_added = 0
            /\ sync_history[i].pages_updated = 0
            /\ sync_history[i].pages_deleted = 0
            /\ sync_history[i].pages_skipped = Cardinality(RemotePages)

CleanIncremental ==
    /\ Finished
    /\ Job.sync_type = "incremental"
    /\ Job.status = "completed"
    /\ obs.stop = "none" /\ obs.failed = {} /\ obs.list_failed = {}

FullIsDue ==
    \/ sync_state = None
    \/ The(sync_state).last_full_sync_at = None
    \/ clock - The(The(sync_state).last_full_sync_at) > StaleDays * TicksPerDay
    \/ The(sync_state).sync_status = "error"

SmartStep ==
    (pc = "idle" /\ pc' # "idle") =>
        obs'.requested = IF FullIsDue THEN "smart_full" ELSE "smart_incremental"

\* C13: sync_smart calls sync_full when the global sync state is missing or
\* has no last_full_sync_at, when the last full sync is older than the 7-day
\* window, or when sync_status is "error"; in every other case it calls
\* sync_incremental.
C13_SmartChoice == [][SmartStep]_vars


\* the number of acquire calls that returned True at a time in (lo, hi]
GrantsIn(lo, hi) ==
    Cardinality({i \in 1..Len(called.granted) :
                    lo < called.granted[i] /\ called.granted[i] <= hi})

\* C14: the number of acquire calls that return True within any trailing
\* 60-second window never exceeds requests_per_minute (here the highest
\* rate the limiter has had).
C14_AtMostRpmPerMinute ==
    \A e \in StartTime..MaxTime :
        GrantsIn(e - Minute, e) * RpmScale <= called.max_rpm


\* C15: any two acquire calls that return True are at least min_interval
\* apart, whether they were called with wait True or False and whatever
\* the bucket holds.
C15_MinIntervalBetweenGrants ==
    \A i \in 1..Len(called.granted) - 1 :
        called.granted[i + 1] - called.granted[i] >= limiter.min_interval

\* three grants, the last two exactly min_interval apart, the last one
\* returned at this very time and leaving less than one token
C15_Witness ==
    LET n == Len(called.granted)
    IN  /\ n >= 3
        /\ called.granted[n] = now
        /\ called.granted[n] - called.granted[n - 1] = limiter.min_interval
        /\ limiter.tokens < Token


\* the wait the claim promises after a 429: the Retry-After given, or the
\* fallback of 60 seconds
PromisedWait(retry_after) ==
    IF retry_after = None THEN Minute ELSE The(retry_after)

\* the times at which acquire returned True after the last
\* handle_rate_limit_error was called
GrantsAfterError ==
    {called.granted[i] : i \in The(called.error).granted + 1 .. Len(called.granted)}

\* C16: once a 429 with Retry-After = N has been handled, no acquire returns
\* True for at least N seconds after it; without a Retry-After the fallback
\* of 60 seconds applies.
C16_NoGrantDuringRetryAfter ==
    called.error # None =>
        \A g \in GrantsAfterError :
            g >= The(called.error).at + PromisedWait(The(called.error).retry_after)

\* a 429 with a Retry-After of two ticks, and the next grant exactly two
\* ticks after it
C16_Witness ==
    /\ called.error # None
    /\ The(called.error).retry_after = Some(2)
    /\ The(called.error).at + 2 \in GrantsAfterError


\* C17: after a 429 has been handled (handle_rate_limit_error, then
\* record_error(is_rate_limit=True)) requests_per_minute is at most half of
\* what it was before the error, whatever it was; stated here for the
\* limiter OneNoteService builds.
C17_RateHalvedAfter429 ==
    (/\ called.last_op = "handled_429"
     /\ limiter.original_rpm = ProductionConfig.requests_per_minute * RpmScale) =>
        2 * limiter.requests_per_minute <= called.pre_rpm


\* C18: after any sequence of acquire, handle_rate_limit_error,
\* record_success and record_error the bucket holds at least 0 and at most
\* burst_size tokens.
C18_TokensWithinBucket ==
    /\ 0 <= limiter.tokens
    /\ limiter.tokens <= limiter.burst_size * Token

\* the bucket emptied by a grant, after a rate limit error was handled and
\* the rate was changed
C18_Witness ==
    /\ limiter.tokens = 0
    /\ called.error # None
    /\ Len(called.granted) > The(called.error).granted
    /\ limiter.requests_per_minute # limiter.original_rpm


\* C19: after any sequence of record_success and record_error calls
\* requests_per_minute is not below the hard floor (the lower of the two
\* floors of record_error, or the configured rate where that is lower
\* still) and not above original_rpm.
C19_RateWithinBounds ==
    called.records > 0 =>
        /\ limiter.requests_per_minute
              >= Min(RateLimitFloor * RpmScale, limiter.original_rpm)
        /\ limiter.requests_per_minute <= limiter.original_rpm


NeverSynced ==
    \/ sync_state = None
    \/ /\ The(sync_state).last_incremental_sync_at = None
       /\ The(sync_state).last_full_sync_at = None

IncrementalStartStep ==
    (pc = "idle" /\ pc' # "idle" /\ obs'.requested = "incremental") =>
        run'.sync_type = IF NeverSynced THEN "full" ELSE "incremental"

\* C21: sync_incremental falls back to sync_full only when the global sync
\* state has neither last_incremental_sync_at nor last_full_sync_at; with
\* either timestamp, as right after a completed sync_full, it makes the
\* incremental metadata pass.
C21_FallbackOnlyWhenNeverSynced == [][IncrementalStartStep]_vars


\* the responses of the call that were not 429s
OtherThan429 ==
    {i \in 1..Len(req.responses) : req.responses[i] # "429"}

\* C22: a 429 is retried after the backoff and does not use up one of the
\* attempts of the call: get_page_content never gives up when all it has
\* met are 429 responses.
C22_NotGivenUpFor429Alone ==
    req.result = "none" => OtherThan429 # {}

\* get_page_content returned None for the page in progress: its content has
\* an <img> tag remotely and _sync_page found none
ContentFetchFailed ==
    /\ pc = "page_cache"
    /\ remote[pg.id].images > 0
    /\ pg.found = 0

FailedFetchStep ==
    ContentFetchFailed =>
        /\ run'.errors = run.errors + 1
        /\ run'.pages_added = run.pages_added
        /\ run'.pages_updated = run.pages_updated
        /\ docs' = docs

TerminalStatuses == {"completed", "failed", "cancelled"}

EndedJobs == {j \in 1..Len(sync_jobs) : sync_jobs[j].status \in TerminalStatuses}

HistoryRowsOf(j) == {i \in 1..Len(sync_history) : sync_history[i].job_id = j}

HistoryStep ==
    /\ \A j \in EndedJobs' : Cardinality(HistoryRowsOf(j)') = 1
    /\ Len(sync_history') >= Len(sync_history)
    /\ SubSeq(sync_history', 1, Len(sync_history)) = sync_history

\* C24: every sync attempt that ended, completed, failed or cancelled, has
\* exactly one sync_history row with its job_id, and no step changes or
\* removes a row that exists.
C24_OneHistoryRowPerEndedJob == [][HistoryStep]_vars

\* C25: the job id a trigger endpoint returned is the id of the SyncJob the
\* orchestrator created for that request: once the background task of every
\* request has created its job, polling with a returned id finds a job.
C25_ReturnedIdFindsJob ==
    api.tasks = 0 =>
        \A i \in 1..Len(api.returned) :
            get_job_status(api.jobs, api.returned[i]) # None

\* the pages whose _sync_page returned in this run with every remote image
\* downloaded, and whose remote image count is not the count cached before
Reimaged ==
    {p \in (obs.added \cup obs.updated) \cap DOMAIN docs :
        /\ docs[p].image_count = remote[p].images
        /\ Cardinality(get_images_for_page(CachedImages, p)) # remote[p].images}

UpsertOfPage == pc = "page_cache" /\ pg.id \in obs'.committed \ obs.committed

VersionStep ==
    /\ \A p \in DOMAIN docs :
          /\ p \in DOMAIN docs'
          /\ docs'[p].sync_version >= docs[p].sync_version
    /\ (UpsertOfPage /\ pg.id \in DOMAIN docs) =>
          docs'[pg.id].sync_version = docs[pg.id].sync_version + 1

CompletedCleanly ==
    /\ pc = "idle"
    /\ obs.job # 0
    /\ sync_jobs[obs.job].status = "completed"
    /\ obs.failed = {}
    /\ obs.list_failed = {}
    /\ obs.stop = "none"

\* the pages that were tombstoned when the run started and are in the page
\* listing of the run
ListedTombstones ==
    {p \in (obs.listed \cup obs.attempted) \cap DOMAIN obs.docs_at_start :
        obs.docs_at_start[p].is_deleted}

TerminalStep ==
    \A j \in EndedJobs : j <= Len(sync_jobs') /\ sync_jobs'[j] = sync_jobs[j]

\* C29: once the persisted status of a job is terminal (completed, failed or
\* cancelled) no later step changes the record of that job; in particular it
\* never moves from one terminal status to another.
C29_TerminalJobUnchanged == [][TerminalStep]_vars

\* the values of sync_status that models.document_cache.SyncState documents
SyncStatuses == {"idle", "syncing", "error", "paused", "completed"}

\* C30: the persisted sync_status of the global SyncState is always one of
\* idle, syncing, error, paused and completed; it is syncing while a sync
\* runs and is not syncing once the sync has ended.
C30_SyncStatusValues ==
    sync_state # None =>
        /\ The(sync_state).sync_status \in SyncStatuses
        /\ pc # "idle" => The(sync_state).sync_status = "syncing"
        /\ pc = "idle" => The(sync_state).sync_status # "syncing"

\* the step is the return of _sync_page to a page loop that counts the page
PageProcessed == run'.pages_fetched = run.pages_fetched + 1

ProgressStep ==
    PageProcessed =>
        /\ sync_jobs'[run.job_id].pages_processed = run'.pages_fetched
        /\ sync_jobs'[run.job_id].api_calls_made = run'.api_calls
        /\ sync_jobs'[run.job_id].estimated_remaining_seconds # None

\* C31: after every processed page the persisted job row has the current
\* pages_processed and api_calls_made and an estimated_remaining_seconds, so
\* that a poll during the run sees no stale count and no missing estimate.
C31_ProgressAfterEveryPage == [][ProgressStep]_vars

\* the step is a record_error call
ErrorReported ==
    /\ Len(called'.outcomes) = Len(called.outcomes) + 1
    /\ called'.outcomes[Len(called'.outcomes)] \in {"rate_limit", "error"}

NoRaiseStep ==
    ErrorReported => limiter'.requests_per_minute <= limiter.requests_per_minute

\* C32: record_error never raises the target rate: after a rate-limit error
\* and after the reduction for repeated other errors requests_per_minute is
\* lower than or equal to what it was, from every rate the limiter reaches.
C32_RecordErrorNeverRaises == [][NoRaiseStep]_vars

\* the last call was a record_error(is_rate_limit=False) that took the
\* branch of the milder reduction (the only one that resets the streak)
MilderReduction ==
    /\ called.outcomes # <<>>
    /\ called.outcomes[Len(called.outcomes)] = "error"
    /\ limiter.consecutive_errors = 0

\* C33: the milder reduction is triggered only by 5 consecutive errors that
\* are not rate-limit errors; rate-limit errors do not count toward the
\* streak.
C33_MilderOnlyAfterFiveErrors ==
    MilderReduction =>
        /\ Len(called.outcomes) >= ErrorsBeforeSlowdown
        /\ \A i \in 1..Len(called.outcomes) :
              i > Len(called.outcomes) - ErrorsBeforeSlowdown =>
                  called.outcomes[i] = "error"

\* C34: every request sent to the remote source, each retry included, is
\* preceded by its own acquire that returned True: the number of requests
\* _download_image has sent is at most the number of such acquire calls.
C34_RequestsWithinAcquires ==
    Len(req.responses) <= Len(called.granted)

\* the step is a mark_document_indexed for page p
MarkedIndexed(p) ==
    /\ docs'[p].indexed_at # None
    /\ docs'[p].indexed_at # docs[p].indexed_at

\* the step is one of the orchestrator: the indexer changes the documents
\* table alone
OrchestratorStep ==
    <<clock, images, sync_state, sync_jobs, sync_history, active_jobs,
      pause_requested, cancel_requested, pc, run, pg, obs>>' #
    <<clock, images, sync_state, sync_jobs, sync_history, active_jobs,
      pause_requested, cancel_requested, pc, run, pg, obs>>

\* an upsert leaves the page in need of indexing, and no step of the
\* orchestrator sets indexed_at to a value
UpsertNeedsIndexing ==
    /\ UpsertOfPage => pg.id \in get_documents_needing_indexing(docs')
    /\ OrchestratorStep =>
          \A p \in DOMAIN docs' :
              \/ docs'[p].indexed_at = None
              \/ p \in DOMAIN docs /\ docs'[p].indexed_at = docs[p].indexed_at

NeedsIndexingStep ==
    /\ UpsertNeedsIndexing
    /\ \A p \in get_documents_needing_indexing(docs) :
          MarkedIndexed(p) \/ p \in get_documents_needing_indexing(docs')

NeedsIndexingOrDeletedStep ==
    /\ UpsertNeedsIndexing
    /\ \A p \in get_documents_needing_indexing(docs) :
          \/ MarkedIndexed(p)
          \/ docs'[p].is_deleted
          \/ p \in get_documents_needing_indexing(docs')

OtherTimestampStep ==
    (sync_state # None /\ sync_state' # None) =>
        /\ pc = "full_finalize" =>
              The(sync_state').last_incremental_sync_at
                  = The(sync_state).last_incremental_sync_at
        /\ pc = "inc_finalize" =>
              The(sync_state').last_full_sync_at = The(sync_state).last_full_sync_at

NotCommitted(p) ==
    /\ remote[p].fmt = "naive"
    /\ \/ p \notin DOMAIN obs.docs_at_start
       \/ obs.docs_at_start[p].modified < remote[p].modified

\* the first run recorded the failure of the _sync_page call of page p
FetchFailedBefore(p) ==
    /\ Len(sync_history) >= 1
    /\ \E k \in 1..Len(sync_history[1].error_details) :
           sync_history[1].error_details[k] = <<"Page", p>>

SyncStarts == pc = "idle" /\ pc' # "idle"

FlagsClearAtStart == SyncStarts => (~pause_requested' /\ ~cancel_requested')

\* C38: a pause or cancel request affects only the sync that is running when
\* it is made: whenever a new sync starts, the pause and cancel flags are
\* clear, so a sync started after an earlier cancel is not stopped by it.
C38_FlagsClearWhenSyncStarts == [][FlagsClearAtStart]_vars


\* a step of the image caching loop of _sync_page that wrote a row of
\* onenote_images (the step of a failed write records the page as failed)
ImageRowWritten ==
    /\ pc = "page_store"
    /\ pg' # pg
    /\ obs'.failed = obs.failed

\* the row written is the one at the position the image has in the content
IndexIsContentPosition ==
    ImageRowWritten =>
        images' = images \cup {<<pg.id, pg.downloaded[pg.st].src>>}

JobEnded(j) ==
    /\ j <= Len(sync_jobs)
    /\ sync_jobs[j].status \in TerminalStatuses
    /\ j \notin active_jobs

\* the requests a remote call of _sync_page has sent stay within max_retries
AttemptsBounded ==
    /\ pc = "page_fetch" => Len(req.responses) <= MaxRetries
    /\ pc = "page_download" => Len(req.responses) <= DownloadRetries

=============================================================================
